---- MODULE Spec2Model ----
(***************************************************************************)
(* One invocation of main.lambda_handler (src/main.py): method dispatch,   *)
(* initialisation of the collaborators, payload parsing, date validation,  *)
(* embedding resolution, vector query, identifier extraction, metadata     *)
(* lookup, response assembly and session release.                          *)
(*                                                                         *)
(* Python strings that the code splits or trims are sequences of           *)
(* one-character strings.  None and a missing key are the markers Null and *)
(* Absent.  Every external call is an action that draws the collaborator's *)
(* outcome and appends an entry to the call log `calls`.  Values of the     *)
(* payload's filter fields and of the filter set are tagged JSON values;   *)
(* dates are calendar days, printed as strftime prints them.  SpecClean    *)
(* runs clean_empty_arrays_and_objects (src/data_cleaning.py) on its own.  *)
(***************************************************************************)
EXTENDS Naturals, Sequences, FiniteSets

\* ------------------------------------------------------------------ bounds
MaxMatches == 2      \* matches the vector index returns for one query
MaxDay == 2          \* calendar days a request may name (1..MaxDay)

\* ------------------------------------------------------- program constants
dimension == 1536    \* main.py:80
DefaultTopK == 3     \* main.py:78

\* ------------------------------------------------------------ Python values
Null == "<None>"
Absent == "<absent>"

Whitespace == {" "}

Range(s) == {s[i] : i \in 1..Len(s)}

\* str.lstrip / str.rstrip / str.strip with no argument
RECURSIVE LStrip(_)
LStrip(s) ==
    IF s = <<>> THEN <<>>
    ELSE IF Head(s) \in Whitespace THEN LStrip(Tail(s)) ELSE s

RECURSIVE RStrip(_)
RStrip(s) ==
    IF s = <<>> THEN <<>>
    ELSE IF s[Len(s)] \in Whitespace THEN RStrip(SubSeq(s, 1, Len(s) - 1)) ELSE s

Strip(s) == RStrip(LStrip(s))

\* str.split(sep): always at least one field, empty fields kept
RECURSIVE Split(_, _)
Split(s, sep) ==
    IF s = <<>> THEN << <<>> >>
    ELSE IF Head(s) = sep THEN << <<>> >> \o Split(Tail(s), sep)
    ELSE LET r == Split(Tail(s), sep)
         IN  << <<Head(s)>> \o Head(r) >> \o Tail(r)

\* [f(x) for x in xs if x]
RECURSIVE StripNonEmpty(_)
StripNonEmpty(xs) ==
    IF xs = <<>> THEN <<>>
    ELSE LET t == Strip(Head(xs))
         IN  IF t # <<>> THEN <<t>> \o StripNonEmpty(Tail(xs))
             ELSE StripNonEmpty(Tail(xs))

\* main.py:153 and :179
\*   [aid.strip() for aid in article_ids_str.split(',') if aid.strip()]
SplitIds(article_ids_str) == StripNonEmpty(Split(article_ids_str, ","))

\* ------------------------------------------------------------------ vectors
\* A Python value handed back as an embedding: None, a str, or a list.  A list
\* is kept run-length encoded: each run is n consecutive elements of one Python
\* type ("float", "int", "bool", "str") and one value.
NoneVector == [type |-> "none", runs |-> <<>>]
StrVector == [type |-> "str", runs |-> <<>>]
ListOf(runs) == [type |-> "list", runs |-> runs]
Run(kind, val, n) == [kind |-> kind, val |-> val, n |-> n]

RECURSIVE RunsLen(_)
RunsLen(runs) == IF runs = <<>> THEN 0 ELSE Head(runs).n + RunsLen(Tail(runs))

\* len(vector)
VLen(v) == RunsLen(v.runs)

\* bool(vector): None and [] are falsy, a non-empty str or list is truthy
Truthy(v) == \/ v.type = "str"
             \/ v.type = "list" /\ VLen(v) > 0

\* isinstance(item, (int, float)); bool is a subclass of int
IsIntOrFloat(kind) == kind \in {"int", "float", "bool"}

\* the mutant drops the length test
is_valid_vector_nolen(vector, dim) ==
    /\ vector.type = "list"
    /\ \A i \in 1..Len(vector.runs) : IsIntOrFloat(vector.runs[i].kind)

\* vector_utils.py:6
is_valid_vector(vector, dim) ==
    /\ vector.type = "list"
    /\ VLen(vector) = dim
    /\ \A i \in 1..Len(vector.runs) : IsIntOrFloat(vector.runs[i].kind)

\* the mutant builds a vector one element short
ZeroVectorShort(dim) == ListOf(<<Run("float", 0, dim - 1)>>)

\* main.py:131   [0.0] * dimension
ZeroVector(dim) == ListOf(<<Run("float", 0, dim)>>)

\* What openai.Embedding.create may produce: an exception (also a response
\* without data[0].embedding), or some value under data[0].embedding.
Embeddings ==
    { ListOf(<<Run("float", 1, dimension)>>),
      ListOf(<<Run("int", 1, dimension)>>),
      ListOf(<<Run("bool", 1, dimension)>>),
      ListOf(<<Run("float", 0, dimension)>>),
      ListOf(<<>>),
      ListOf(<<Run("float", 1, dimension - 1)>>),
      ListOf(<<Run("float", 1, dimension + 1)>>),
      ListOf(<<Run("float", 1, dimension - 1), Run("str", 0, 1)>>),
      StrVector }

EmbedOutcomes ==
    {[raised |-> TRUE, embedding |-> NoneVector]}
        \cup {[raised |-> FALSE, embedding |-> e] : e \in Embeddings}

\* vector_utils.py:13   any exception is logged and None returned
create_dense_vector(outcome) ==
    IF outcome.raised THEN NoneVector ELSE outcome.embedding

\* ------------------------------------------------------------- JSON values
\* A value of the payload or of the filter set, tagged with its Python type:
\* a number n, a str of characters s, a list of values xs, or a dict d, a
\* function from its keys to values.
EmptyDict == <<>>
JAbsent == [k |-> "absent", n |-> 0, s |-> <<>>, xs |-> <<>>, d |-> EmptyDict]
JNum(n) == [k |-> "num", n |-> n, s |-> <<>>, xs |-> <<>>, d |-> EmptyDict]
JStr(chars) == [k |-> "str", n |-> 0, s |-> chars, xs |-> <<>>, d |-> EmptyDict]
JList(xs) == [k |-> "list", n |-> 0, s |-> <<>>, xs |-> xs, d |-> EmptyDict]
JDict(f) == [k |-> "dict", n |-> 0, s |-> <<>>, xs |-> <<>>, d |-> f]

\* bool(value)
PyTruthy(x) ==
    CASE x.k = "absent" -> FALSE
      [] x.k = "num" -> x.n # 0
      [] x.k = "str" -> x.s # <<>>
      [] x.k = "list" -> x.xs # <<>>
      [] x.k = "dict" -> DOMAIN x.d # {}

\* the mutant looks at the values of the mapping it is given and no deeper
clean_top_level_only(obj) ==
    [key \in {key \in DOMAIN obj :
                ~ \/ obj[key].k = "dict" /\ DOMAIN obj[key].d = {}
                  \/ obj[key].k = "list" /\ obj[key].xs = <<>>} |-> obj[key]]

\* data_cleaning.py:1-11: the mapping as it is after the call.  A dict value
\* is cleaned first and its key deleted if it is empty then; the key of an
\* empty list is deleted; the elements of a list are not looked at.
RECURSIVE clean_empty_arrays_and_objects(_)
clean_empty_arrays_and_objects(obj) ==
    LET cleaned == [key \in DOMAIN obj |->
                      IF obj[key].k = "dict"
                      THEN JDict(clean_empty_arrays_and_objects(obj[key].d))
                      ELSE obj[key]]
        keys_to_delete ==
            {key \in DOMAIN obj :
                \/ cleaned[key].k = "dict" /\ DOMAIN cleaned[key].d = {}
                \/ cleaned[key].k = "list" /\ cleaned[key].xs = <<>>}
    IN  [key \in DOMAIN obj \ keys_to_delete |-> cleaned[key]]

\* {"$in": xs}
InClause(xs) == JDict([key \in {"$in"} |-> JList(xs)])

\* main.py:105   x if isinstance(x, list) else [x]
AsList(x) == IF x.k = "list" THEN x.xs ELSE <<x>>

\* main.py:107   list(filter(None, cat)): the truthy elements of a list, the
\* characters of a str; a number is not iterable and raises TypeError
FilterNoneRaises(x) == x.k = "num"

FilterNone(x) ==
    CASE x.k = "list" -> SelectSeq(x.xs, PyTruthy)
      [] x.k = "str" -> [i \in 1..Len(x.s) |-> JStr(<<x.s[i]>>)]
      [] OTHER -> <<>>

\* -------------------------------------------------------------- civil dates
\* A datetime is kept as its calendar day; the time of day plays no part in
\* what strftime('%Y-%m-%d') prints nor in the comparison of two midnights.
Civil(y, m, d) == [year |-> y, month |-> m, day |-> d]

IsLeap(y) == (y % 4 = 0 /\ y % 100 # 0) \/ y % 400 = 0

DaysInMonth(y, m) ==
    IF m = 2 THEN (IF IsLeap(y) THEN 29 ELSE 28)
    ELSE IF m \in {4, 6, 9, 11} THEN 30 ELSE 31

\* date + timedelta(days=1)
NextDay(c) ==
    IF c.day < DaysInMonth(c.year, c.month) THEN Civil(c.year, c.month, c.day + 1)
    ELSE IF c.month < 12 THEN Civil(c.year, c.month + 1, 1)
    ELSE Civil(c.year + 1, 1, 1)

\* date - timedelta(days=1)
PrevDay(c) ==
    IF c.day > 1 THEN Civil(c.year, c.month, c.day - 1)
    ELSE IF c.month > 1 THEN Civil(c.year, c.month - 1, DaysInMonth(c.year, c.month - 1))
    ELSE Civil(c.year - 1, 12, 31)

RECURSIVE PlusDays(_, _)
PlusDays(c, n) == IF n = 0 THEN c ELSE PlusDays(NextDay(c), n - 1)

RECURSIVE MinusDays(_, _)
MinusDays(c, n) == IF n = 0 THEN c ELSE MinusDays(PrevDay(c), n - 1)

\* start_date <= end_date
DateLE(a, b) ==
    \/ a.year < b.year
    \/ a.year = b.year /\ a.month < b.month
    \/ a.year = b.year /\ a.month = b.month /\ a.day <= b.day

DigitChars == <<"0", "1", "2", "3", "4", "5", "6", "7", "8", "9">>
Digit(n) == DigitChars[n + 1]

\* date_utils.py:3-4   strftime('%Y-%m-%d'), zero padded
format_date(date_obj) ==
    << Digit((date_obj.year \div 1000) % 10), Digit((date_obj.year \div 100) % 10),
       Digit((date_obj.year \div 10) % 10), Digit(date_obj.year % 10), "-",
       Digit(date_obj.month \div 10), Digit(date_obj.month % 10), "-",
       Digit(date_obj.day \div 10), Digit(date_obj.day % 10) >>

\* date_utils.py:6-12
RECURSIVE DateRange(_, _)
DateRange(start_date, end_date) ==
    IF DateLE(start_date, end_date)
    THEN <<JStr(format_date(start_date))>> \o DateRange(NextDay(start_date), end_date)
    ELSE <<>>

generate_date_range(start_date, end_date) == InClause(DateRange(start_date, end_date))

\* date_utils.py:14-19: datetime.now() is read in every iteration; clock[i] is
\* the calendar day of the i-th reading
generate_recent_dates(days, clock) ==
    InClause([i \in 1..days |-> JStr(format_date(MinusDays(clock[i], i - 1)))])

\* ------------------------------------------------------------------- events
\* A date field of the payload: missing, not in %Y-%m-%d form, or the day
\* `day` of the calendar (1..MaxDay).
NoDate == [kind |-> "absent", day |-> 0]
BadDate == [kind |-> "bad", day |-> 0]
Ymd(d) == [kind |-> "ymd", day |-> d]
DateValues == {NoDate, BadDate} \cup {Ymd(d) : d \in 1..MaxDay}

\* search_string: missing, JSON null, or a string
NoSearch == [kind |-> "absent", chars |-> <<>>]
NullSearch == [kind |-> "null", chars |-> <<>>]
Str(chars) == [kind |-> "str", chars |-> chars]
SearchValues ==
    {NoSearch, NullSearch, Str(<<>>), Str(<<" ", " ">>), Str(<<" ", "q", " ">>)}

NoTopK == [present |-> FALSE, n |-> 0]
TopK(n) == [present |-> TRUE, n |-> n]

\* the payload's fields; MkPayload leaves the four filter fields out
MkPayload(sd, ed, ss, k) ==
    [start_date |-> sd, end_date |-> ed, search_string |-> ss, top_k |-> k,
     symbol |-> JAbsent, cat |-> JAbsent,
     significancescore |-> JAbsent, sentimentscore |-> JAbsent]

WithFilters(p, symbol, cat, significancescore, sentimentscore) ==
    [p EXCEPT !.symbol = symbol, !.cat = cat,
              !.significancescore = significancescore,
              !.sentimentscore = sentimentscore]
EmptyPayload == MkPayload(NoDate, NoDate, NoSearch, NoTopK)

AAPL == JStr(<<"A", "A", "P", "L">>)
MSFT == JStr(<<"M", "S", "F", "T">>)
News == JStr(<<"n", "e", "w", "s">>)

\* payloads with filter fields: a symbol as str and as list, cat with and
\* without empty strings, as a str and as a number, scores as number and as
\* list, falsy values, and all of them with a date range
FilterPayloads ==
    { WithFilters(EmptyPayload, AAPL, JAbsent, JAbsent, JAbsent),
      WithFilters(EmptyPayload, JList(<<AAPL, MSFT>>), JAbsent, JNum(7), JList(<<JNum(1), JNum(2)>>)),
      WithFilters(EmptyPayload, JList(<<>>), JList(<<>>), JNum(0), JStr(<<>>)),
      WithFilters(EmptyPayload, JAbsent, JList(<<JStr(<<>>), JStr(<<>>)>>), JAbsent, JAbsent),
      WithFilters(EmptyPayload, JAbsent, JList(<<News, JStr(<<>>)>>), JAbsent, JAbsent),
      WithFilters(EmptyPayload, JAbsent, JStr(<<"a", "b">>), JAbsent, JAbsent),
      WithFilters(EmptyPayload, AAPL, JNum(5), JAbsent, JAbsent),
      WithFilters(MkPayload(Ymd(1), Ymd(MaxDay), NoSearch, NoTopK),
                  AAPL, JList(<<News>>), JNum(7), JNum(1)),
      WithFilters(MkPayload(Ymd(1), Ymd(MaxDay), NoSearch, NoTopK),
                  JAbsent, JList(<<JStr(<<>>)>>), JAbsent, JAbsent),
      WithFilters(MkPayload(BadDate, Ymd(1), NoSearch, NoTopK),
                  AAPL, JNum(5), JAbsent, JAbsent) }

Payloads ==
    {MkPayload(sd, ed, NoSearch, NoTopK) : sd \in DateValues, ed \in DateValues}
    \cup {MkPayload(sd, Ymd(1), Str(<<" ", "q", " ">>), NoTopK) :
            sd \in {BadDate, Ymd(1), Ymd(MaxDay)}}
    \cup {MkPayload(NoDate, NoDate, ss, NoTopK) : ss \in SearchValues}
    \cup {MkPayload(NoDate, NoDate, NoSearch, TopK(1)),
          MkPayload(Ymd(MaxDay), Ymd(1), NullSearch, NoTopK)}
    \cup FilterPayloads

\* event['body']: missing, None, or a string.  A string is plain text or the
\* base64 form of a text; the text is a JSON object (with `payload`), JSON of
\* another type, or not JSON; "undecodable" is a base64 string whose decoding
\* or UTF-8 decoding fails.
NoBody == [kind |-> "absent", encoding |-> "plain", content |-> "object",
           payload |-> EmptyPayload]
NullBody == [kind |-> "null", encoding |-> "plain", content |-> "object",
             payload |-> EmptyPayload]
BodyStr(enc, content, payload) ==
    [kind |-> "str", encoding |-> enc, content |-> content, payload |-> payload]

MkEvent(hm, v2, b64, body) ==
    [httpMethod |-> hm, v2method |-> v2, isBase64Encoded |-> b64, body |-> body]

HttpMethods == {Absent, "", "OPTIONS", "POST", "GET"}
V2Methods == {Absent, Null, "OPTIONS", "POST", "DELETE"}

Events ==
    {MkEvent(hm, v2, FALSE, NoBody) : hm \in HttpMethods, v2 \in V2Methods}
    \cup {MkEvent("POST", Absent, FALSE, b) :
            b \in {NullBody,
                   BodyStr("plain", "nonobject", EmptyPayload),
                   BodyStr("plain", "malformed", EmptyPayload),
                   BodyStr("base64", "object", EmptyPayload)}}
    \cup {MkEvent("POST", Absent, TRUE, b) :
            b \in {NoBody, NullBody,
                   BodyStr("base64", "object", EmptyPayload),
                   BodyStr("base64", "nonobject", EmptyPayload),
                   BodyStr("base64", "malformed", EmptyPayload),
                   BodyStr("base64", "undecodable", EmptyPayload)}}
    \cup {MkEvent("POST", Absent, FALSE, BodyStr("plain", "object", p)) :
            p \in Payloads}

NoEvent == MkEvent(Absent, Absent, FALSE, NoBody)

\* main.py:31
\*   event.get('httpMethod') or
\*   event.get('requestContext', {}).get('http', {}).get('method', 'POST')
ResolveMethod(ev) ==
    IF ev.httpMethod \notin {Absent, Null, ""} THEN ev.httpMethod
    ELSE IF ev.v2method = Absent THEN "POST"
    ELSE ev.v2method

\* main.py:64-67: what body / base64 decoding / json.loads come to.
\*   "object"      json.loads returned a dict
\*   "nonobject"   json.loads returned something that is no dict
\*   "JSONDecodeError", "TypeError", "ValueError"  the exception raised
\* A flagged body that is no base64 text is taken to fail in b64decode.
\* b64decode discards characters outside its alphabet, so the default '{}'
\* decodes to the empty text, which is not JSON; json.loads(None) and
\* b64decode(None) raise TypeError; binascii.Error and UnicodeDecodeError are
\* ValueErrors that are no JSONDecodeError.
LoadBody(ev) ==
    LET b == ev.body IN
    IF b.kind = "null" THEN "TypeError"
    ELSE IF b.kind = "absent"
         THEN IF ev.isBase64Encoded THEN "JSONDecodeError" ELSE "object"
    ELSE IF ev.isBase64Encoded
         THEN IF b.encoding = "base64"
              THEN CASE b.content = "undecodable" -> "ValueError"
                     [] b.content = "malformed" -> "JSONDecodeError"
                     [] OTHER -> b.content
              ELSE "ValueError"
    ELSE IF b.encoding = "base64" THEN "JSONDecodeError"
    ELSE CASE b.content = "malformed" -> "JSONDecodeError"
           [] b.content = "undecodable" -> "JSONDecodeError"
           [] OTHER -> b.content

\* the dict json.loads returned
LoadedPayload(ev) == IF ev.body.kind = "absent" THEN EmptyPayload ELSE ev.body.payload

\* ---------------------------------------------------------------- responses
\* main.py:20
cors_headers ==
    [AccessControlAllowOrigin |-> "*",
     AccessControlAllowMethods |-> "GET, POST, OPTIONS",
     AccessControlAllowHeaders |-> "Content-Type, Authorization, apikey",
     ContentType |-> "application/json"]

NoHeaders ==
    [AccessControlAllowOrigin |-> Absent,
     AccessControlAllowMethods |-> Absent,
     AccessControlAllowHeaders |-> Absent,
     ContentType |-> Absent]

NoSummaries == [matches |-> <<>>, namespace |-> Absent]

\* A body is the raw text '' or json.dumps of a value, kept as the value:
\*   tag "string"     json.dumps('<text>')
\*   tag "error"      json.dumps({'error': text + detail})
\*   tag "summaries"  json.dumps({'summaries': summaries})
RawEmpty ==
    [tag |-> "raw", text |-> "", detail |-> "", summaries |-> NoSummaries]
JsonString(t) ==
    [tag |-> "string", text |-> t, detail |-> "", summaries |-> NoSummaries]
JsonError(t, d) ==
    [tag |-> "error", text |-> t, detail |-> d, summaries |-> NoSummaries]
JsonSummaries(r) ==
    [tag |-> "summaries", text |-> "", detail |-> "", summaries |-> r]

Response(code, body) == [statusCode |-> code, headers |-> cors_headers, body |-> body]
NoResponse == [statusCode |-> 0, headers |-> NoHeaders, body |-> RawEmpty]

\* ------------------------------------------------------- handler's returns
\* main.py:34
OptionsResponse == Response(200, RawEmpty)

\* main.py:42
MethodNotAllowedResponse == Response(405, JsonString("Method Not Allowed"))

\* the mutant answers the preflight like any other non-POST method
DispatchNoPreflight(m) ==
    IF m # "POST" THEN MethodNotAllowedResponse ELSE NoResponse

\* main.py:34-47: the response of the method dispatch, NoResponse when the
\* request goes on into the try block
Dispatch(m) ==
    IF m = "OPTIONS" THEN OptionsResponse
    ELSE IF m # "POST" THEN MethodNotAllowedResponse
    ELSE NoResponse

\* the mutant has no clause for JSONDecodeError
OuterExceptNoJson(exc) == Response(500, JsonString("Internal Server Error"))

\* the mutant returns the catch-all's response without the headers
OuterExceptNoCors(exc) ==
    IF exc = "JSONDecodeError"
    THEN Response(400, JsonError("Invalid JSON payload.", ""))
    ELSE [statusCode |-> 500, headers |-> NoHeaders,
          body |-> JsonString("Internal Server Error")]

\* main.py:228-241: the except clauses of the outer try
OuterExcept(exc) ==
    IF exc = "JSONDecodeError"
    THEN Response(400, JsonError("Invalid JSON payload.", ""))
    ELSE Response(500, JsonString("Internal Server Error"))

\* the mutant has no inner try: the exception reaches the outer clauses
InnerExceptGeneric(e) == Response(500, JsonString("Internal Server Error"))

\* main.py:207-213: the except clause of the inner try
InnerExcept(e) ==
    Response(500, JsonError("Error querying 'summaries' namespace: ", e))

\* main.py:121
EmbeddingErrorResponse ==
    Response(500, JsonError("Error generating vector from search string.", ""))

\* main.py:95
DateErrorResponse(ve) == Response(400, JsonError("Invalid date format: ", ve))

\* main.py:222
OkResponse(response_body) == Response(200, JsonSummaries(response_body))

\* ------------------------------------------------------------------- dates
DateTruthy(d) == d.kind # "absent"

StrptimeError == "time data does not match format '%Y-%m-%d'"

\* the mutant compares the wrong way round
DateValueErrorSwapped(sd, ed) ==
    IF sd.kind = "bad" \/ ed.kind = "bad" THEN StrptimeError
    ELSE IF sd.day < ed.day THEN "start_date cannot be after end_date."
    ELSE ""

\* main.py:88-91: the text of the ValueError raised for two supplied dates,
\* "" when none is raised
DateValueError(sd, ed) ==
    IF sd.kind = "bad" \/ ed.kind = "bad" THEN StrptimeError
    ELSE IF sd.day > ed.day THEN "start_date cannot be after end_date."
    ELSE ""

\* strptime(date_str, '%Y-%m-%d') of a well-formed date: day 1 of the
\* calendar is 2024-02-28
strptime(date_str) == PlusDays(Civil(2024, 2, 27), date_str.day)

\* main.py:102   generate_recent_dates(5)
recent_days == 5

\* the calendar day at the request's time
Today == Civil(2024, 3, 2)

\* What the readings of datetime.now() in generate_recent_dates may be: all on
\* the request's day, or the first on it and the others after midnight.
Clocks ==
    {[i \in 1..recent_days |-> IF i <= m THEN Today ELSE NextDay(Today)] :
        m \in {1, recent_days}}

FilterFields == {"symbol", "cat", "significancescore", "sentimentscore"}

\* main.py:83-111: dynamic_filters before it is cleaned
BuildFilters(payload, created) ==
    [key \in {"created"} \cup {f \in FilterFields : PyTruthy(payload[f])} |->
        CASE key = "created" -> created
          [] key = "cat" -> InClause(FilterNone(payload.cat))
          [] OTHER -> InClause(AsList(payload[key]))]

\* main.py:87-102: the value of dynamic_filters["created"]
Created(sd, ed, clock) ==
    IF DateTruthy(sd) /\ DateTruthy(ed)
    THEN generate_date_range(strptime(sd), strptime(ed))
    ELSE generate_recent_dates(recent_days, clock)

\* ------------------------------------------------------------------ matches
\* metadata.get('article_ids', ''): missing, a str, or a value of another type
NoIds == [kind |-> "absent", chars |-> <<>>]
IdsStr(chars) == [kind |-> "str", chars |-> chars]
IdsList == [kind |-> "list", chars |-> <<>>]

\* the keys of a match's metadata other than article_ids, with their values
NoOther == EmptyDict
TitleOnly == [key \in {"title"} |-> JStr(<<"T">>)]
TitleAndSymbol == [key \in {"title", "symbol"} |-> IF key = "title" THEN JStr(<<"U">>) ELSE AAPL]

\* what a match may carry: no metadata at all, or metadata with this
\* article_ids and these other keys
MetaOptions ==
    { [has_metadata |-> FALSE, article_ids |-> NoIds, other |-> NoOther],
      [has_metadata |-> TRUE, article_ids |-> NoIds, other |-> TitleAndSymbol],
      [has_metadata |-> TRUE, article_ids |-> IdsStr(<<"a">>), other |-> TitleOnly],
      [has_metadata |-> TRUE, article_ids |-> IdsStr(<<"a", ",", ",", "b", " ">>), other |-> NoOther],
      [has_metadata |-> TRUE, article_ids |-> IdsStr(<<" ", ",", " ">>), other |-> TitleOnly],
      [has_metadata |-> TRUE, article_ids |-> IdsStr(<<"b", ",", " ", "b">>), other |-> TitleAndSymbol],
      [has_metadata |-> TRUE, article_ids |-> IdsList, other |-> TitleOnly] }

MkMatch(i, m) ==
    [id |-> i, score |-> MaxMatches + 1 - i,
     has_metadata |-> m.has_metadata, article_ids |-> m.article_ids,
     other |-> m.other]

MatchSeqs ==
    UNION { {[i \in 1..n |-> MkMatch(i, f[i])] : f \in [1..n -> MetaOptions]} :
            n \in 0..MaxMatches }

NoResults == [matches |-> <<>>, namespace |-> Absent]

\* the index answers with matches and a namespace, which is the one asked for
\* or, for a few of the answers, another
QueryOutcomes ==
    {[raised |-> TRUE, result |-> NoResults]}
        \cup {[raised |-> FALSE, result |-> [matches |-> ms, namespace |-> "summaries"]] :
                ms \in MatchSeqs}
        \cup {[raised |-> FALSE, result |-> [matches |-> ms, namespace |-> ""]] :
                ms \in {ms \in MatchSeqs : \A i \in 1..Len(ms) : ms[i].other = TitleAndSymbol}}

\* main.py:151 / :178   `if article_ids_str:`
IdsTruthy(a) == \/ a.kind = "list"
                \/ a.kind = "str" /\ a.chars # <<>>

\* main.py:153 / :179   .split on a value that is no str raises AttributeError
IdsRaise(a) == IdsTruthy(a) /\ a.kind # "str"

\* the identifiers of one match, in order, with repetitions
MatchIds(m) == IF IdsTruthy(m.article_ids) THEN SplitIds(m.article_ids.chars) ELSE <<>>

ExtractRaises(matches) == \E i \in 1..Len(matches) : IdsRaise(matches[i].article_ids)

\* the mutant splits and keeps the pieces as they are
ExtractIdsUntrimmed(matches) ==
    UNION {IF IdsTruthy(matches[i].article_ids)
           THEN Range(Split(matches[i].article_ids.chars, ","))
           ELSE {} : i \in 1..Len(matches)}

\* main.py:147-154
ExtractIds(matches) == UNION {Range(MatchIds(matches[i])) : i \in 1..Len(matches)}

\* ------------------------------------------------------------ the store
NullRecord == [site |-> Null, url |-> Null]
RowRecord(id) == [site |-> "site", url |-> <<"http://">> \o id]
EmptyInfo == [aid \in {} |-> NullRecord]

\* the mutant lets the exception out, as a lookup without the try would
get_article_info_reraise(article_ids, outcome) ==
    IF outcome.raised THEN [raised |-> TRUE, info |-> EmptyInfo]
    ELSE [raised |-> FALSE,
          info |-> [aid \in outcome.found |-> RowRecord(aid)]]

\* db_utils.py:72-125: the identifiers are trimmed, empty ones dropped, one
\* SELECT ... WHERE ID IN (...) is run and its rows become the mapping; any
\* exception is logged and {} returned.  outcome.found are the IDs of the rows
\* the store returns.
get_article_info_from_snowflake(article_ids, outcome) ==
    IF outcome.raised THEN [raised |-> FALSE, info |-> EmptyInfo]
    ELSE [raised |-> FALSE,
          info |-> [aid \in outcome.found |-> RowRecord(aid)]]

\* the identifiers the SELECT names (db_utils.py:85-93)
QueriedIds(article_ids) == {Strip(aid) : aid \in article_ids} \ {<<>>}

StoreOutcomes(article_ids) ==
    {[raised |-> TRUE, found |-> {}]}
        \cup {[raised |-> FALSE, found |-> F] : F \in SUBSET QueriedIds(article_ids)}

\* ------------------------------------------------------- response assembly
\* the mutant keeps only the identifiers the store knew
ArticlesDataFoundOnly(a, article_info) ==
    IF IdsTruthy(a)
    THEN [aid \in Range(SplitIds(a.chars)) \cap DOMAIN article_info |-> article_info[aid]]
    ELSE EmptyInfo

\* main.py:178-190: the mapping that replaces a match's article_ids
ArticlesData(a, article_info) ==
    IF IdsTruthy(a)
    THEN [aid \in Range(SplitIds(a.chars)) |->
            IF aid \in DOMAIN article_info THEN article_info[aid] ELSE NullRecord]
    ELSE EmptyInfo

\* the mutant builds the output's metadata anew, with article_ids only
OutMatchBare(m, article_info) ==
    [id |-> m.id, score |-> m.score,
     metadata |-> [article_ids |-> ArticlesData(m.article_ids, article_info),
                   other |-> NoOther]]

\* main.py:173-197: article_ids is replaced in the match's metadata, which
\* keeps its other keys
OutMatch(m, article_info) ==
    [id |-> m.id, score |-> m.score,
     metadata |-> [article_ids |-> ArticlesData(m.article_ids, article_info),
                   other |-> m.other]]

\* main.py:168-171
SerializableResults(query_results, article_info) ==
    [matches |-> [i \in 1..Len(query_results.matches) |->
                    OutMatch(query_results.matches[i], article_info)],
     namespace |-> query_results.namespace]

\* -------------------------------------------------------------------- state
VARIABLES
    pc,               \* the statement the handler is at; "idle" before the call, "done" after its return
    event,            \* the event of the invocation
    method,           \* main.py:31
    session,          \* the Snowflake session: "none", "open" or "closed"
    calls,            \* configuration lookups and external calls so far, in order
    start_date_str,   \* main.py:75
    end_date_str,     \* main.py:76
    search_string,    \* main.py:77, trimmed
    top_k,            \* main.py:78
    vector,           \* main.py:119 / :131
    query_args,       \* the keyword arguments of pinecone_index.query
    query_results,    \* main.py:136
    article_ids_set,  \* main.py:147
    article_info,     \* main.py:164
    response_body,    \* main.py:200, the value under 'summaries'
    response,         \* what the handler returned
    clock,            \* the readings of datetime.now() made by generate_recent_dates
    dynamic_filters   \* main.py:83

vars == <<pc, event, method, session, calls, start_date_str, end_date_str,
          search_string, top_k, vector, query_args, query_results,
          article_ids_set, article_info, response_body, response, clock,
          dynamic_filters>>

Call(op, ok) == [op |-> op, ok |-> ok]
Called(op) == \E i \in 1..Len(calls) : calls[i].op = op
Failed(op) == \E i \in 1..Len(calls) : calls[i].op = op /\ ~calls[i].ok
Succeeded(op) == \E i \in 1..Len(calls) : calls[i].op = op /\ calls[i].ok

NoQueryArgs ==
    [namespace |-> Absent, vector |-> NoneVector, top_k |-> 0,
     include_metadata |-> FALSE, has_filter |-> FALSE]

\* the mutant passes the filter set
QueryArgsFiltered(v, k) ==
    [namespace |-> "summaries", vector |-> v, top_k |-> k,
     include_metadata |-> TRUE, has_filter |-> TRUE]

\* main.py:136-142: the filter argument is commented out
QueryArgs(v, k) ==
    [namespace |-> "summaries", vector |-> v, top_k |-> k,
     include_metadata |-> TRUE, has_filter |-> FALSE]

Init ==
    /\ pc = "idle"
    /\ event = NoEvent
    /\ method = Absent
    /\ session = "none"
    /\ calls = <<>>
    /\ start_date_str = NoDate
    /\ end_date_str = NoDate
    /\ search_string = <<>>
    /\ top_k = 0
    /\ vector = NoneVector
    /\ query_args = NoQueryArgs
    /\ query_results = NoResults
    /\ article_ids_set = {}
    /\ article_info = EmptyInfo
    /\ response_body = NoSummaries
    /\ response = NoResponse
    /\ clock = <<>>
    /\ dynamic_filters = EmptyDict

Return(r) == response' = r /\ pc' = "done"

\* main.py:18-47: the handler is invoked with some event and dispatches on
\* the method
HandleMethod ==
    /\ pc = "idle"
    /\ \E ev \in Events :
        /\ event' = ev
        /\ method' = ResolveMethod(ev)
        /\ IF Dispatch(ResolveMethod(ev)) # NoResponse
           THEN Return(Dispatch(ResolveMethod(ev)))
           ELSE pc' = "initialize_pinecone" /\ response' = response
    /\ UNCHANGED <<session, calls, start_date_str, end_date_str, search_string,
                   top_k, vector, query_args, query_results, article_ids_set,
                   article_info, response_body,
                   clock, dynamic_filters>>

\* main.py:51, db_utils.py:16-36: the key is read from the environment; a
\* missing key and a failing client constructor both raise
InitializePinecone ==
    /\ pc = "initialize_pinecone"
    /\ \E key_present \in BOOLEAN, client_ok \in BOOLEAN :
        IF ~key_present
        THEN /\ calls' = Append(calls, Call("env.PINECONE_API_KEY", FALSE))
             /\ Return(OuterExcept("ValueError"))
        ELSE IF ~client_ok
        THEN /\ calls' = calls \o <<Call("env.PINECONE_API_KEY", TRUE), Call("pinecone.init", FALSE)>>
             /\ Return(OuterExcept("Exception"))
        ELSE /\ calls' = calls \o <<Call("env.PINECONE_API_KEY", TRUE), Call("pinecone.init", TRUE)>>
             /\ pc' = "create_snowflake_session"
             /\ response' = response
    /\ UNCHANGED <<event, method, session, start_date_str, end_date_str,
                   search_string, top_k, vector, query_args, query_results,
                   article_ids_set, article_info, response_body,
                   clock, dynamic_filters>>

\* main.py:54, db_utils.py:40-65: connection parameters from the environment,
\* then Session.builder...create(); a failure is re-raised
CreateSnowflakeSession ==
    /\ pc = "create_snowflake_session"
    /\ \E connected \in BOOLEAN :
        IF connected
        THEN /\ calls' = calls \o <<Call("env.SNOWFLAKE", TRUE), Call("snowflake.connect", TRUE)>>
             /\ session' = "open"
             /\ pc' = "openai_key"
             /\ response' = response
        ELSE /\ calls' = calls \o <<Call("env.SNOWFLAKE", TRUE), Call("snowflake.connect", FALSE)>>
             /\ session' = session
             /\ Return(OuterExcept("Exception"))
    /\ UNCHANGED <<event, method, start_date_str, end_date_str, search_string,
                   top_k, vector, query_args, query_results, article_ids_set,
                   article_info, response_body,
                   clock, dynamic_filters>>

\* main.py:57-61
SetOpenAIKey ==
    /\ pc = "openai_key"
    /\ \E key_present \in BOOLEAN :
        /\ calls' = Append(calls, Call("env.OPENAI_API_KEY", key_present))
        /\ IF key_present
           THEN pc' = "parse_payload" /\ response' = response
           ELSE Return(OuterExcept("ValueError"))
    /\ UNCHANGED <<event, method, session, start_date_str, end_date_str,
                   search_string, top_k, vector, query_args, query_results,
                   article_ids_set, article_info, response_body,
                   clock, dynamic_filters>>

\* main.py:64-80: body, base64, json.loads, then the payload's fields.
\* payload.get on a value that is no dict, and .strip() on a null
\* search_string, raise AttributeError.
ParsePayload ==
    /\ pc = "parse_payload"
    /\ LET loaded == LoadBody(event)
           payload == LoadedPayload(event)
       IN  IF loaded \notin {"object", "nonobject"}
           THEN /\ Return(OuterExcept(loaded))
                /\ UNCHANGED <<start_date_str, end_date_str, search_string, top_k>>
           ELSE IF loaded = "nonobject" \/ payload.search_string.kind = "null"
           THEN /\ Return(OuterExcept("AttributeError"))
                /\ UNCHANGED <<start_date_str, end_date_str, search_string, top_k>>
           ELSE /\ start_date_str' = payload.start_date
                /\ end_date_str' = payload.end_date
                /\ search_string' = Strip(payload.search_string.chars)
                /\ top_k' = IF payload.top_k.present THEN payload.top_k.n ELSE DefaultTopK
                /\ pc' = "handle_dates"
                /\ response' = response
    /\ UNCHANGED <<event, method, session, calls, vector, query_args,
                   query_results, article_ids_set, article_info, response_body,
                   clock, dynamic_filters>>

\* main.py:83-114: both dates supplied: parse and compare them, a ValueError
\* returns 400; otherwise the recent days are taken from the clock.  Then the
\* filter fields are added and the filter set is cleaned; a cat that cannot
\* be iterated raises TypeError, which the last except clause catches.
HandleDates ==
    /\ pc = "handle_dates"
    /\ IF /\ DateTruthy(start_date_str) /\ DateTruthy(end_date_str)
          /\ DateValueError(start_date_str, end_date_str) # ""
       THEN /\ Return(DateErrorResponse(DateValueError(start_date_str, end_date_str)))
            /\ UNCHANGED <<clock, dynamic_filters>>
       ELSE \E c \in Clocks :
            LET payload == LoadedPayload(event)
                built == BuildFilters(payload, Created(start_date_str, end_date_str, c))
            IN  /\ clock' = IF DateTruthy(start_date_str) /\ DateTruthy(end_date_str)
                            THEN clock ELSE c
                /\ IF PyTruthy(payload.cat) /\ FilterNoneRaises(payload.cat)
                   THEN /\ dynamic_filters' =
                              [key \in DOMAIN built \cap {"created", "symbol"} |-> built[key]]
                        /\ Return(OuterExcept("TypeError"))
                   ELSE /\ dynamic_filters' = clean_empty_arrays_and_objects(built)
                        /\ pc' = "resolve_vector"
                        /\ response' = response
    /\ UNCHANGED <<event, method, session, calls, start_date_str, end_date_str,
                   search_string, top_k, vector, query_args, query_results,
                   article_ids_set, article_info, response_body>>

\* main.py:117-132: a non-empty search string is embedded and the result
\* validated; an empty one gives the zero vector
ResolveVector ==
    /\ pc = "resolve_vector"
    /\ IF search_string # <<>>
       THEN \E o \in EmbedOutcomes :
              /\ calls' = Append(calls, Call("openai.embed", ~o.raised))
              /\ vector' = create_dense_vector(o)
              /\ IF \/ ~Truthy(create_dense_vector(o))
                    \/ ~is_valid_vector(create_dense_vector(o), dimension)
                 THEN Return(EmbeddingErrorResponse)
                 ELSE pc' = "query" /\ response' = response
       ELSE /\ vector' = ZeroVector(dimension)
            /\ calls' = calls
            /\ pc' = "query"
            /\ response' = response
    /\ UNCHANGED <<event, method, session, start_date_str, end_date_str,
                   search_string, top_k, query_args, query_results,
                   article_ids_set, article_info, response_body,
                   clock, dynamic_filters>>

\* the matches before the first one whose article_ids cannot be split
BeforeRaise(matches) ==
    IF ExtractRaises(matches)
    THEN SubSeq(matches, 1,
                (CHOOSE i \in 1..Len(matches) :
                    /\ IdsRaise(matches[i].article_ids)
                    /\ \A j \in 1..(i - 1) : ~IdsRaise(matches[j].article_ids)) - 1)
    ELSE matches

\* main.py:136-158: the query (at most top_k matches come back), then the
\* identifiers of every match are collected; an exception of either goes to
\* the inner except clause
QueryIndex ==
    /\ pc = "query"
    /\ query_args' = QueryArgs(vector, top_k)
    /\ \E o \in QueryOutcomes :
        /\ Len(o.result.matches) <= top_k
        /\ calls' = Append(calls, Call("pinecone.query", ~o.raised))
        /\ query_results' = o.result
        /\ article_ids_set' = ExtractIds(BeforeRaise(o.result.matches))
        /\ IF o.raised THEN Return(InnerExcept("query failed"))
           ELSE IF ExtractRaises(o.result.matches)
           THEN Return(InnerExcept("'list' object has no attribute 'split'"))
           ELSE pc' = "fetch_article_info" /\ response' = response
    /\ UNCHANGED <<event, method, session, start_date_str, end_date_str,
                   search_string, top_k, vector, article_info, response_body,
                   clock, dynamic_filters>>

\* the mutant asks the store whatever the identifier set
FetchArticleInfoAlways ==
    /\ pc = "fetch_article_info"
    /\ \E o \in StoreOutcomes(article_ids_set) :
          /\ calls' = Append(calls, Call("snowflake.sql", ~o.raised))
          /\ article_info' = get_article_info_from_snowflake(article_ids_set, o).info
          /\ pc' = "assemble"
          /\ response' = response
    /\ UNCHANGED <<event, method, session, start_date_str, end_date_str,
                   search_string, top_k, vector, query_args, query_results,
                   article_ids_set, response_body,
                   clock, dynamic_filters>>

\* the mutant asks the store again after a failed lookup
FetchArticleInfoRetry ==
    /\ pc = "fetch_article_info"
    /\ \E o \in StoreOutcomes(article_ids_set) :
          /\ calls' = Append(calls, Call("snowflake.sql", ~o.raised))
          /\ article_info' = get_article_info_from_snowflake(article_ids_set, o).info
          /\ pc' = IF o.raised THEN pc ELSE "assemble"
          /\ response' = response
    /\ UNCHANGED <<event, method, session, start_date_str, end_date_str,
                   search_string, top_k, vector, query_args, query_results,
                   article_ids_set, response_body,
                   clock, dynamic_filters>>

\* main.py:160-165: the store is asked only for a non-empty identifier set
FetchArticleInfo ==
    /\ pc = "fetch_article_info"
    /\ IF article_ids_set # {}
       THEN \E o \in StoreOutcomes(article_ids_set) :
              /\ calls' = Append(calls, Call("snowflake.sql", ~o.raised))
              /\ IF get_article_info_from_snowflake(article_ids_set, o).raised
                 THEN /\ article_info' = article_info
                      /\ Return(InnerExcept("store failed"))
                 ELSE /\ article_info' = get_article_info_from_snowflake(article_ids_set, o).info
                      /\ pc' = "assemble"
                      /\ response' = response
       ELSE /\ article_info' = EmptyInfo
            /\ calls' = calls
            /\ pc' = "assemble"
            /\ response' = response
    /\ UNCHANGED <<event, method, session, start_date_str, end_date_str,
                   search_string, top_k, vector, query_args, query_results,
                   article_ids_set, response_body,
                   clock, dynamic_filters>>

\* main.py:167-205
AssembleResponse ==
    /\ pc = "assemble"
    /\ response_body' = SerializableResults(query_results, article_info)
    /\ pc' = "close_session"
    /\ UNCHANGED <<event, method, session, calls, start_date_str, end_date_str,
                   search_string, top_k, vector, query_args, query_results,
                   article_ids_set, article_info, response,
                   clock, dynamic_filters>>

\* main.py:215-226: close() is tried, its exception logged, and 200 returned
CloseSession ==
    /\ pc = "close_session"
    /\ \E closed \in BOOLEAN :
        /\ calls' = Append(calls, Call("snowflake.close", closed))
        /\ session' = IF closed THEN "closed" ELSE session
    /\ Return(OkResponse(response_body))
    /\ UNCHANGED <<event, method, start_date_str, end_date_str, search_string,
                   top_k, vector, query_args, query_results, article_ids_set,
                   article_info, response_body,
                   clock, dynamic_filters>>

Next ==
    \/ HandleMethod
    \/ InitializePinecone
    \/ CreateSnowflakeSession
    \/ SetOpenAIKey
    \/ ParsePayload
    \/ HandleDates
    \/ ResolveVector
    \/ QueryIndex
    \/ FetchArticleInfo
    \/ AssembleResponse
    \/ CloseSession

Spec == Init /\ [][Next]_vars

\* ---------------------------------------------- the cleaning of filter sets
\* the payloads for which the handler gets as far as main.py:114
Cleanable(p) ==
    /\ ~ /\ DateTruthy(p.start_date) /\ DateTruthy(p.end_date)
         /\ DateValueError(p.start_date, p.end_date) # ""
    /\ ~ (PyTruthy(p.cat) /\ FilterNoneRaises(p.cat))

PayloadEvent(p) == MkEvent("POST", Absent, FALSE, BodyStr("plain", "object", p))

\* mappings nested in mappings, with lists and scalars at the leaves
Leaves == {JList(<<>>), JList(<<AAPL>>), JNum(0), JStr(<<>>)}
TreeKeys == {"a", "$in"}
DictsOver(V) == UNION {[K -> V] : K \in SUBSET TreeKeys}
Level1 == DictsOver(Leaves)
Level2 == DictsOver(Leaves \cup {JDict(f) : f \in Level1})
Level3 == {[key \in {"a"} |-> JDict(f)] : f \in Level2}

\* the call of main.py:114 on its own: the argument is a filter set the
\* handler builds from a payload, or any nesting of mappings
InitClean ==
    /\ pc = "clean"
    /\ \/ \E p \in {p \in Payloads : Cleanable(p)}, c \in Clocks :
            /\ event = PayloadEvent(p)
            /\ dynamic_filters = BuildFilters(p, Created(p.start_date, p.end_date, c))
       \/ /\ event = NoEvent
          /\ dynamic_filters \in Level1 \cup Level2 \cup Level3
    /\ method = Absent
    /\ session = "none"
    /\ calls = <<>>
    /\ start_date_str = NoDate
    /\ end_date_str = NoDate
    /\ search_string = <<>>
    /\ top_k = 0
    /\ vector = NoneVector
    /\ query_args = NoQueryArgs
    /\ query_results = NoResults
    /\ article_ids_set = {}
    /\ article_info = EmptyInfo
    /\ response_body = NoSummaries
    /\ response = NoResponse
    /\ clock = <<>>

\* main.py:114, data_cleaning.py:1-11
CleanFilters ==
    /\ pc = "clean"
    /\ dynamic_filters' = clean_empty_arrays_and_objects(dynamic_filters)
    /\ pc' = "cleaned"
    /\ UNCHANGED <<event, method, session, calls, start_date_str, end_date_str,
                   search_string, top_k, vector, query_args, query_results,
                   article_ids_set, article_info, response_body, response, clock>>

NextClean == CleanFilters

SpecClean == InitClean /\ [][NextClean]_vars

\* ================================================================== claims
Returned == pc = "done"

\* The tokens of a comma-separated string, said without split and strip: every
\* maximal comma-free stretch, cut down to what lies between its first and
\* last non-blank character, when it has one.
Fields(chars) ==
    {f \in (1..(Len(chars) + 1)) \X (0..Len(chars)) :
        /\ f[1] <= f[2] + 1
        /\ (f[1] = 1 \/ chars[f[1] - 1] = ",")
        /\ (f[2] = Len(chars) \/ chars[f[2] + 1] = ",")
        /\ \A k \in f[1]..f[2] : chars[k] # ","}

Trimmed(t) ==
    IF \A k \in 1..Len(t) : t[k] = " " THEN <<>>
    ELSE LET a == CHOOSE a \in 1..Len(t) :
                    t[a] # " " /\ \A k \in 1..(a - 1) : t[k] = " "
             b == CHOOSE b \in 1..Len(t) :
                    t[b] # " " /\ \A k \in (b + 1)..Len(t) : t[k] = " "
         IN  SubSeq(t, a, b)

Tokens(a) ==
    IF a.kind = "str"
    THEN {Trimmed(SubSeq(a.chars, f[1], f[2])) : f \in Fields(a.chars)} \ {<<>>}
    ELSE {}

Is200WithMatches == Returned /\ response.statusCode = 200 /\ response.body.tag = "summaries"

OutMatches == response.body.summaries.matches

\* C1: once create_snowflake_session has returned a session, close() has been
\* called on it by the time the handler returns, on every exit path.
C1_SessionClosedOnEveryExit ==
    (Returned /\ Succeeded("snowflake.connect")) => Called("snowflake.close")

\* C2: in every 200 response with matches, every trimmed non-empty
\* comma-separated token of a match's article_ids string is a key of that
\* match's output article_ids mapping, mapped to the store's record for it or
\* to {site: null, url: null}.
C2_EveryIdentifierMapped ==
    Is200WithMatches =>
        /\ Len(OutMatches) = Len(query_results.matches)
        /\ \A i \in 1..Len(query_results.matches) :
             \A t \in Tokens(query_results.matches[i].article_ids) :
                /\ t \in DOMAIN OutMatches[i].metadata.article_ids
                /\ \/ OutMatches[i].metadata.article_ids[t] = NullRecord
                   \/ /\ t \in DOMAIN article_info
                      /\ OutMatches[i].metadata.article_ids[t] = article_info[t]

\* a 200 response in which one match has an identifier the store resolved and
\* another it did not
C2_Witness ==
    /\ Is200WithMatches
    /\ \E i \in 1..Len(query_results.matches) :
         \E t, u \in Tokens(query_results.matches[i].article_ids) :
            /\ t \in DOMAIN article_info
            /\ u \notin DOMAIN article_info
            /\ OutMatches[i].metadata.article_ids[t] # NullRecord
            /\ OutMatches[i].metadata.article_ids[u] = NullRecord

\* C3: when the store's lookup fails after the embedding and the vector query
\* succeeded, the handler still returns 200 with the matches, every identifier
\* mapped to a record with site and url null.
C3_StoreFailureDegrades ==
    (Returned /\ Failed("snowflake.sql")) =>
        /\ response.statusCode = 200
        /\ response.body.tag = "summaries"
        /\ Len(OutMatches) = Len(query_results.matches)
        /\ \A i \in 1..Len(query_results.matches) :
             \A t \in Tokens(query_results.matches[i].article_ids) :
                /\ t \in DOMAIN OutMatches[i].metadata.article_ids
                /\ OutMatches[i].metadata.article_ids[t] = NullRecord

\* the lookup failed in a request that embedded a search string and got two
\* matches with identifiers
C3_Witness ==
    /\ Returned
    /\ Failed("snowflake.sql")
    /\ Succeeded("openai.embed")
    /\ Succeeded("pinecone.query")
    /\ Len(query_results.matches) = MaxMatches
    /\ \A i \in 1..Len(query_results.matches) :
         Tokens(query_results.matches[i].article_ids) # {}

\* a list of exactly 1536 numbers (bool counts as a number in Python)
IsEmbedding1536(v) ==
    /\ v.type = "list"
    /\ VLen(v) = 1536
    /\ \A i \in 1..Len(v.runs) :
         v.runs[i].n > 0 => v.runs[i].kind \in {"int", "float", "bool"}

\* C4: when the embedding provider was called and failed, or returned
\* something that is no list of exactly 1536 numbers, the handler has returned
\* 500 with an {"error": ...} body and has called neither the vector index nor
\* the store (so no zero vector was sent in its place).
C4_EmbeddingFailureAborts ==
    (Called("openai.embed") /\ (Failed("openai.embed") \/ ~IsEmbedding1536(vector))) =>
        /\ Returned
        /\ response.statusCode = 500
        /\ response.body.tag = "error"
        /\ ~Called("pinecone.query")
        /\ ~Called("snowflake.sql")
        /\ query_args = NoQueryArgs

\* the provider answered with a list one element too long
C4_Witness ==
    /\ Returned
    /\ Succeeded("openai.embed")
    /\ vector.type = "list"
    /\ VLen(vector) = 1537
    /\ response.statusCode = 500

\* the search_string of the request is absent, empty or only whitespace
BlankSearch(ev) ==
    LET ss == LoadedPayload(ev).search_string
    IN  \/ ss.kind = "absent"
        \/ ss.kind = "str" /\ \A i \in 1..Len(ss.chars) : ss.chars[i] = " "

IsZeroVector1536(v) ==
    /\ v.type = "list"
    /\ VLen(v) = 1536
    /\ \A i \in 1..Len(v.runs) :
         v.runs[i].n > 0 => (v.runs[i].kind = "float" /\ v.runs[i].val = 0)

\* C5: for a request whose search_string is absent, empty or only whitespace
\* the embedding provider is never called, and the vector sent to the vector
\* index is the all-zero vector of length 1536.
C5_BlankSearchZeroVector ==
    BlankSearch(event) =>
        /\ ~Called("openai.embed")
        /\ Called("pinecone.query") => IsZeroVector1536(query_args.vector)

\* a whitespace-only search string reached the vector query
C5_Witness ==
    /\ LoadedPayload(event).search_string = Str(<<" ", " ">>)
    /\ Called("pinecone.query")
    /\ Returned

\* C6: when the vector index query fails the handler returns 500 with an
\* {"error": ...} body naming the vector query, without matches, and the
\* store is not queried.
C6_VectorQueryFailureAborts ==
    Failed("pinecone.query") =>
        /\ Returned
        /\ response.statusCode = 500
        /\ response.body.tag = "error"
        /\ response.body.text = "Error querying 'summaries' namespace: "
        /\ response.body.summaries.matches = <<>>
        /\ ~Called("snowflake.sql")

\* the query failed for an embedded search string
C6_Witness ==
    /\ Returned
    /\ Failed("pinecone.query")
    /\ Succeeded("openai.embed")

\* the three key lookups and the two client constructions of main.py:51-61
\* all succeeded
InitSucceeded ==
    /\ Succeeded("pinecone.init")
    /\ Succeeded("snowflake.connect")
    /\ Succeeded("env.OPENAI_API_KEY")

\* both dates are in YYYY-MM-DD form and start_date is later than end_date
StartAfterEnd(ev) ==
    LET p == LoadedPayload(ev)
    IN  /\ p.start_date.kind = "ymd"
        /\ p.end_date.kind = "ymd"
        /\ p.start_date.day > p.end_date.day

StartAfterEndResponse ==
    [statusCode |-> 400,
     headers |-> cors_headers,
     body |-> JsonError("Invalid date format: ", "start_date cannot be after end_date.")]

NoLookupCalls ==
    /\ ~Called("openai.embed")
    /\ ~Called("pinecone.query")
    /\ ~Called("snowflake.sql")

\* C7 as stated: every POST request with start_date later than end_date is
\* answered 400 with the start-after-end message and no lookup call is made.
C7_Original ==
    (Returned /\ method = "POST" /\ StartAfterEnd(event)) =>
        (response = StartAfterEndResponse /\ NoLookupCalls)

\* C7 amended: a POST request with start_date later than end_date never
\* causes an embedding, vector-index or metadata lookup call, and when
\* initialisation succeeded and the payload's fields were read (the body is a
\* JSON object whose search_string, if present, is a string) it is answered
\* 400 with the start-after-end message.
C7_StartAfterEndRejected ==
    (method = "POST" /\ StartAfterEnd(event)) =>
        /\ NoLookupCalls
        /\ (/\ Returned
            /\ InitSucceeded
            /\ LoadBody(event) = "object"
            /\ LoadedPayload(event).search_string.kind # "null")
           => response = StartAfterEndResponse

\* a request with a search string and start_date after end_date was answered
C7_Witness ==
    /\ Returned
    /\ method = "POST"
    /\ StartAfterEnd(event)
    /\ InitSucceeded
    /\ LoadedPayload(event).search_string = Str(<<" ", "q", " ">>)
    /\ response.statusCode = 400

\* the body is a string whose text (after base64 decoding when the event is
\* flagged as base64) is not well-formed JSON
MalformedJsonBody(ev) ==
    /\ ev.body.kind = "str"
    /\ IF ev.isBase64Encoded
       THEN ev.body.encoding = "base64" /\ ev.body.content = "malformed"
       ELSE ev.body.encoding = "base64" \/ ev.body.content = "malformed"

InvalidJsonResponse ==
    [statusCode |-> 400,
     headers |-> cors_headers,
     body |-> JsonError("Invalid JSON payload.", "")]

\* C8 as stated: every POST request whose body is not well-formed JSON is
\* answered 400 {"error": "Invalid JSON payload."}.
C8_Original ==
    (Returned /\ method = "POST" /\ MalformedJsonBody(event)) =>
        response = InvalidJsonResponse

\* C8 amended: when initialisation succeeded, a POST request whose body text
\* is not well-formed JSON is answered 400 {"error": "Invalid JSON payload."}.
C8_MalformedJsonRejected ==
    (Returned /\ method = "POST" /\ InitSucceeded /\ MalformedJsonBody(event)) =>
        response = InvalidJsonResponse

\* a base64-flagged body that decodes to malformed JSON was answered
C8_Witness ==
    /\ Returned
    /\ method = "POST"
    /\ InitSucceeded
    /\ event.isBase64Encoded
    /\ MalformedJsonBody(event)
    /\ response.statusCode = 400

\* C9: OPTIONS yields 200 with an empty body, a method other than OPTIONS and
\* POST yields 405 "Method Not Allowed", both without any configuration lookup
\* or external call, and only POST goes on into the pipeline.
C9_MethodDispatch ==
    /\ (Returned /\ method = "OPTIONS") =>
          /\ response.statusCode = 200
          /\ response.body = RawEmpty
          /\ calls = <<>>
    /\ (Returned /\ method \notin {"OPTIONS", "POST"}) =>
          /\ response.statusCode = 405
          /\ response.body = JsonString("Method Not Allowed")
          /\ calls = <<>>
    /\ (pc \notin {"idle", "done"} \/ calls # <<>>) => method = "POST"
    /\ (Returned /\ method = "POST") => calls # <<>>

\* a preflight request whose method came from requestContext.http.method
C9_Witness ==
    /\ Returned
    /\ event.httpMethod = Absent
    /\ event.v2method = "OPTIONS"
    /\ response.statusCode = 200

\* C10: every response has statusCode 200, 400, 405 or 500 and the four CORS
\* headers.
C10_StatusAndHeaders ==
    Returned =>
        /\ response.statusCode \in {200, 400, 405, 500}
        /\ response.headers =
             [AccessControlAllowOrigin |-> "*",
              AccessControlAllowMethods |-> "GET, POST, OPTIONS",
              AccessControlAllowHeaders |-> "Content-Type, Authorization, apikey",
              ContentType |-> "application/json"]

\* the catch-all path returned
C10_Witness ==
    /\ Returned
    /\ response.statusCode = 500
    /\ response.body = JsonString("Internal Server Error")
    /\ Succeeded("snowflake.connect")

\* a failure that is no validation, embedding or vector-query failure: a
\* missing key, a failed client or connection, or an exception raised while
\* the identifiers of the returned matches are extracted
UnclassifiedFailure ==
    \/ Failed("env.PINECONE_API_KEY")
    \/ Failed("pinecone.init")
    \/ Failed("snowflake.connect")
    \/ Failed("env.OPENAI_API_KEY")
    \/ Succeeded("pinecone.query") /\ ExtractRaises(query_results.matches)

\* C11: a failure that is no validation, embedding or vector-query failure
\* yields 500 with the literal body "Internal Server Error", so the exception
\* text is not in the body.
C11_UnclassifiedIsGeneric ==
    (Returned /\ UnclassifiedFailure) =>
        /\ response.statusCode = 500
        /\ response.body = JsonString("Internal Server Error")

\* the identifiers of the returned matches have been collected
ExtractionDone ==
    Succeeded("pinecone.query") /\ ~ExtractRaises(query_results.matches)

AllTokens ==
    UNION {Tokens(query_results.matches[i].article_ids) :
            i \in 1..Len(query_results.matches)}

\* C14: the identifier set built from the matches is exactly the set of
\* trimmed, non-empty, comma-separated tokens of the article_ids strings of all
\* matches; a match without the field contributes nothing and raises no error.
C14_IdentifierSetIsTokens ==
    /\ ExtractionDone => article_ids_set = AllTokens
    /\ ( /\ Succeeded("pinecone.query")
         /\ \A i \in 1..Len(query_results.matches) :
                query_results.matches[i].article_ids.kind = "absent" )
       => /\ ExtractionDone
          /\ article_ids_set = {}
          /\ Returned => response.statusCode = 200

\* two matches, one without the field and one naming the same identifier
\* twice around a blank: one entry
C14_Witness ==
    /\ ExtractionDone
    /\ Len(query_results.matches) = 2
    /\ \E i, j \in 1..2 :
        /\ query_results.matches[i].article_ids = NoIds
        /\ query_results.matches[j].article_ids = IdsStr(<<"b", ",", " ", "b">>)
    /\ article_ids_set = {<<"b">>}

\* the calls that contact a collaborator over the network, and the
\* collaborator's place in the pipeline
Collaborator(op) ==
    CASE op = "openai.embed" -> 1
      [] op = "pinecone.query" -> 2
      [] op \in {"snowflake.connect", "snowflake.sql", "snowflake.close"} -> 3
      [] OTHER -> 0

Contacts == {i \in 1..Len(calls) : Collaborator(calls[i].op) # 0}

\* C15 as stated: every contact with a collaborator comes in the order
\* embedding provider, vector index, relational store, and each collaborator
\* is contacted at most once.
C15_Original ==
    \A i, j \in Contacts :
        i < j => Collaborator(calls[i].op) < Collaborator(calls[j].op)

DataOps == {"openai.embed", "pinecone.query", "snowflake.sql"}

DataCalls == {i \in 1..Len(calls) : calls[i].op \in DataOps}

\* C15, amended: the session with the store is opened before any pipeline
\* call and closed after all of them; the embedding request, the vector query
\* and the store's lookup come in that order, each at most once, none after a
\* failed embedding request or vector query, and the handler's position only
\* moves forward.
C15_PipelineOrder ==
    /\ \A i, j \in DataCalls :
        i < j => /\ Collaborator(calls[i].op) < Collaborator(calls[j].op)
                 /\ calls[i].ok
    /\ \A i \in DataCalls : \A j \in 1..Len(calls) :
        /\ calls[j].op = "snowflake.connect" => j < i /\ calls[j].ok
        /\ calls[j].op = "snowflake.close" => i < j
    /\ \A i, j \in 1..Len(calls) :
        calls[i].op = calls[j].op => i = j
    /\ Called("openai.embed") => pc \in {"query", "fetch_article_info", "assemble", "close_session", "done"}
    /\ Called("pinecone.query") => pc \in {"fetch_article_info", "assemble", "close_session", "done"}
    /\ Called("snowflake.sql") => pc \in {"assemble", "close_session", "done"}
    /\ Called("snowflake.close") => pc = "done"

\* a request that made all three pipeline calls and closed the session
C15_Witness ==
    /\ Returned
    /\ Succeeded("openai.embed")
    /\ Succeeded("pinecone.query")
    /\ Called("snowflake.sql")
    /\ Called("snowflake.close")

\* C16: when the identifier set extracted from the matches is empty, the store
\* is not queried, the metadata mapping is empty, and the response is 200 with
\* every match's article_ids an empty mapping.
C16_EmptySetSkipsStore ==
    (ExtractionDone /\ article_ids_set = {}) =>
        /\ ~Called("snowflake.sql")
        /\ article_info = EmptyInfo
        /\ Returned =>
            /\ response.statusCode = 200
            /\ response.body.tag = "summaries"
            /\ Len(OutMatches) = Len(query_results.matches)
            /\ \A i \in 1..Len(OutMatches) :
                 OutMatches[i].metadata.article_ids = EmptyInfo

\* a 200 response to a query whose matches carry no identifier: one without
\* the field, one with blanks and commas only
C16_Witness ==
    /\ Is200WithMatches
    /\ article_ids_set = {}
    /\ Len(query_results.matches) = 2
    /\ \E i, j \in 1..2 :
        /\ query_results.matches[i].article_ids.kind = "absent"
        /\ query_results.matches[j].article_ids = IdsStr(<<" ", ",", " ">>)

\* the dates of the 'created' filter
CreatedDates == dynamic_filters["created"].d["$in"].xs

\* C12: when start_date and end_date are not both supplied, the 'created'
\* filter holds exactly 5 distinct dates, the request's day and the 4 days
\* before it, whenever the clock advances while the list is built.
C12_RecentDatesCoverFiveDays ==
    clock # <<>> =>
        /\ Len(CreatedDates) = recent_days
        /\ Cardinality(Range(CreatedDates)) = recent_days
        /\ Range(CreatedDates) =
             {JStr(format_date(MinusDays(Today, i))) : i \in 0..(recent_days - 1)}

\* some key, at some depth of mappings, maps to an empty list or mapping
RECURSIVE HasEmpty(_)
HasEmpty(obj) ==
    \E key \in DOMAIN obj :
        \/ obj[key].k = "list" /\ Len(obj[key].xs) = 0
        \/ obj[key].k = "dict" /\ DOMAIN obj[key].d = {}
        \/ obj[key].k = "dict" /\ HasEmpty(obj[key].d)

\* cat is a list with nothing but empty strings in it
CatOnlyEmptyStrings ==
    LET cat == LoadedPayload(event).cat
    IN  /\ cat.k = "list"
        /\ cat.xs # <<>>
        /\ \A i \in 1..Len(cat.xs) : cat.xs[i] = JStr(<<>>)

\* C13: after clean_empty_arrays_and_objects has run on a filter set, no key
\* at any depth maps to an empty list or an empty mapping; a cat of empty
\* strings only is absent from the filter set.
C13_NoEmptyValueAfterClean ==
    pc = "cleaned" =>
        /\ ~HasEmpty(dynamic_filters)
        /\ CatOnlyEmptyStrings => "cat" \notin DOMAIN dynamic_filters

\* the cleaned filter set of a payload whose cat has only empty strings: the
\* 'created' filter is there, cat is not
C13_Witness ==
    /\ pc = "cleaned"
    /\ CatOnlyEmptyStrings
    /\ DOMAIN dynamic_filters = {"created"}

\* C17: the query sent to the vector index has namespace 'summaries', the
\* vector, top_k and include_metadata, and no metadata filter, whatever the
\* filter set built from the payload.
C17_QueryCarriesNoFilter ==
    Called("pinecone.query") =>
        query_args = [namespace |-> "summaries", vector |-> vector,
                      top_k |-> top_k, include_metadata |-> TRUE,
                      has_filter |-> FALSE]

\* a query was sent for a request with a date range and all four filter
\* fields, all of them in the filter set
C17_Witness ==
    /\ Called("pinecone.query")
    /\ DOMAIN dynamic_filters = {"created"} \cup FilterFields
    /\ clock = <<>>

\* C18: in every 200 response the matches are those the index returned, in
\* the same number and order, each with its id and score, every metadata key
\* other than article_ids with its value, and the namespace is the one the
\* index returned.
C18_MatchesPassThrough ==
    Is200WithMatches =>
        /\ Len(OutMatches) = Len(query_results.matches)
        /\ \A i \in 1..Len(query_results.matches) :
            /\ OutMatches[i].id = query_results.matches[i].id
            /\ OutMatches[i].score = query_results.matches[i].score
            /\ OutMatches[i].metadata.other = query_results.matches[i].other
        /\ response.body.summaries.namespace = query_results.namespace

\* a 200 response with two matches whose metadata has other keys, from an
\* index that named another namespace than the one asked for
C18_Witness ==
    /\ Is200WithMatches
    /\ Len(query_results.matches) = MaxMatches
    /\ \A i \in 1..Len(query_results.matches) :
         DOMAIN query_results.matches[i].other = {"title", "symbol"}
    /\ query_results.namespace # query_args.namespace

====
